---- MODULE Spec2Model ----
(***************************************************************************)
(* A model of src/dbfUtils.py: dbfwriter, which writes a DBF file, and     *)
(* dbfreader, the generator that reads one.  A file is a sequence of bytes *)
(* (integers 0..255); a Python value is a tagged record; an exception is a *)
(* record naming the exception and the source line that raises it.  The    *)
(* assert statements run (Python is not started with -O).                  *)
(***************************************************************************)
EXTENDS Integers, Sequences, FiniteSets, TLC

VARIABLES
  f,           \* the byte stream: what dbfwriter wrote, what dbfreader reads
  fieldnames,  \* dbfwriter's argument: a sequence of names (byte strings)
  fieldspecs,  \* dbfwriter's argument: a sequence of <<typ, size, deci>>
  records,     \* dbfwriter's argument: a sequence of records (value sequences)
  numrecArg,   \* dbfwriter's argument numrec: -1 stands for None
  wpc,         \* dbfwriter's position
  widx,        \* number of records dbfwriter has finished
  werr,        \* the exception dbfwriter raised, or NoError
  rpc,         \* dbfreader's position (between two yields, or inside the loop)
  pos,         \* dbfreader's position in the stream
  numrec,      \* dbfreader's numrec, from the prologue
  lenheader,   \* dbfreader's lenheader, from the prologue
  fields,      \* dbfreader's fields: <<name, typ, size, deci>> per descriptor
  idx,         \* dbfreader's loop counter i: record slots consumed so far
  ynames,      \* the first row dbfreader yielded (field names)
  yspecs,      \* the second row dbfreader yielded (field specs)
  rows,        \* the data rows dbfreader yielded, in order
  rerr         \* the exception dbfreader raised, or NoError

vars == <<f, fieldnames, fieldspecs, records, numrecArg, wpc, widx, werr,
          rpc, pos, numrec, lenheader, fields, idx, ynames, yspecs, rows, rerr>>

wvars == <<fieldnames, fieldspecs, records, numrecArg, wpc, widx, werr>>
rvars == <<rpc, pos, numrec, lenheader, fields, idx, ynames, yspecs, rows, rerr>>

(***************************************************************************)
(* Bounds of the model.                                                    *)
(***************************************************************************)
MaxFields == 2
MaxRecs == 2

(***************************************************************************)
(* Bytes.                                                                  *)
(***************************************************************************)
Asc == [NUL |-> 0, TAB |-> 9, LF |-> 10, VT |-> 11, FF |-> 12, CR |-> 13,
        EOF |-> 26, SP |-> 32, STAR |-> 42, PLUS |-> 43, MINUS |-> 45,
        DOT |-> 46, ZERO |-> 48, NINE |-> 57, QM |-> 63,
        C |-> 67, D |-> 68, F |-> 70, L |-> 76, M |-> 77, N |-> 78, T |-> 84,
        X |-> 88, Y |-> 89, a |-> 97, f |-> 102, n |-> 110, t |-> 116,
        y |-> 121, z |-> 122]

Byte == 0..255

Repeat(b, n) == [i \in 1..n |-> b]

Min(a, b) == IF a < b THEN a ELSE b

Max(a, b) == IF a > b THEN a ELSE b

\* Python's s[:n] for n >= 0
Take(s, n) == SubSeq(s, 1, Min(n, Len(s)))

\* Python's s[a:b] for 0 <= a <= b
Slice(s, a, b) == SubSeq(s, Min(a, Len(s)) + 1, Min(b, Len(s)))

\* str.ljust(w, fill) and str.rjust(w, fill)
Ljust(s, w, fill) == IF Len(s) >= w THEN s ELSE s \o Repeat(fill, w - Len(s))

Rjust(s, w, fill) == IF Len(s) >= w THEN s ELSE Repeat(fill, w - Len(s)) \o s

\* str.upper() on one byte
Upper(b) == IF b >= Asc.a /\ b <= Asc.z THEN b - 32 ELSE b

\* str.replace('\0', '')
RECURSIVE StripNul(_)
StripNul(s) ==
  IF s = <<>> THEN <<>>
  ELSE IF Head(s) = Asc.NUL THEN StripNul(Tail(s))
       ELSE <<Head(s)>> \o StripNul(Tail(s))

Whitespace == {Asc.SP, Asc.TAB, Asc.LF, Asc.VT, Asc.FF, Asc.CR}

\* str.lstrip()
RECURSIVE Lstrip(_)
Lstrip(s) ==
  IF s # <<>> /\ Head(s) \in Whitespace THEN Lstrip(Tail(s)) ELSE s

\* str.rstrip()
RECURSIVE Rstrip(_)
Rstrip(s) ==
  IF s # <<>> /\ s[Len(s)] \in Whitespace
  THEN Rstrip(SubSeq(s, 1, Len(s) - 1)) ELSE s

\* v in s, for two Python strings: v is a substring of s
IsSubstring(v, s) ==
  \E i \in 0..(Len(s) - Len(v)) : SubSeq(s, i + 1, i + Len(v)) = v

(***************************************************************************)
(* Python values and exceptions.                                           *)
(***************************************************************************)
IntV(n) == [k |-> "int", n |-> n, e |-> 0, s |-> <<>>]

\* decimal.Decimal: n * 10^(-e), e decimal places
DecV(n, e) == [k |-> "dec", n |-> n, e |-> e, s |-> <<>>]

DateV(y, m, d) == [k |-> "date", n |-> 0, e |-> 0, s |-> <<y, m, d>>]

StrV(s) == [k |-> "str", n |-> 0, e |-> 0, s |-> s]

NoError == [exc |-> "none", line |-> 0]

Raise(exc, line) == [exc |-> exc, line |-> line]

\* the outcome of an expression that may raise
Ok(v) == [err |-> NoError, v |-> v]

Fail(exc, line) == [err |-> Raise(exc, line), v |-> <<>>]

RECURSIVE Pow10(_)
Pow10(e) == IF e = 0 THEN 1 ELSE 10 * Pow10(e - 1)

\* Python's == on two values: numbers compare by value, the rest by identity
\* of kind and content
PyEq(a, b) ==
  IF a.k \in {"int", "dec"} /\ b.k \in {"int", "dec"}
  THEN a.n * Pow10(b.e) = b.n * Pow10(a.e)
  ELSE a = b

(***************************************************************************)
(* Rendering and parsing of numbers and dates.                             *)
(***************************************************************************)
RECURSIVE Digits(_)
Digits(n) ==
  IF n < 10 THEN <<Asc.ZERO + n>>
  ELSE Digits(n \div 10) \o <<Asc.ZERO + (n % 10)>>

ZeroPad(n, w) == Rjust(Digits(n), w, Asc.ZERO)

Abs(n) == IF n < 0 THEN -n ELSE n

Sign(n) == IF n < 0 THEN <<Asc.MINUS>> ELSE <<>>

\* str() of a Python value
Str(v) ==
  CASE v.k = "int" -> Sign(v.n) \o Digits(Abs(v.n))
    [] v.k = "dec" ->
         LET d == ZeroPad(Abs(v.n), v.e + 1)
         IN  IF v.e = 0 THEN Sign(v.n) \o d
             ELSE Sign(v.n) \o SubSeq(d, 1, Len(d) - v.e) \o <<Asc.DOT>>
                            \o SubSeq(d, Len(d) - v.e + 1, Len(d))
    [] v.k = "date" ->
         ZeroPad(v.s[1], 4) \o <<Asc.MINUS>> \o ZeroPad(v.s[2], 2)
                            \o <<Asc.MINUS>> \o ZeroPad(v.s[3], 2)
    [] OTHER -> v.s

IsDigit(b) == b >= Asc.ZERO /\ b <= Asc.NINE

AllDigits(s) == \A i \in 1..Len(s) : IsDigit(s[i])

RECURSIVE DigitsValue(_)
DigitsValue(s) ==
  IF s = <<>> THEN 0
  ELSE 10 * DigitsValue(SubSeq(s, 1, Len(s) - 1)) + (s[Len(s)] - Asc.ZERO)

\* the text without surrounding whitespace and without its sign
Unsigned(s) ==
  LET t == Rstrip(Lstrip(s))
  IN  IF t # <<>> /\ t[1] \in {Asc.PLUS, Asc.MINUS} THEN Tail(t) ELSE t

Negative(s) ==
  LET t == Lstrip(s) IN t # <<>> /\ t[1] = Asc.MINUS

\* int(s) of a str: surrounding whitespace, a sign, decimal digits
ParseInt(s, line) ==
  LET u == Unsigned(s)
  IN  IF u # <<>> /\ AllDigits(u)
      THEN Ok(IntV(IF Negative(s) THEN -DigitsValue(u) ELSE DigitsValue(u)))
      ELSE Fail("ValueError", line)

DotAt(u) == IF \E i \in 1..Len(u) : u[i] = Asc.DOT
            THEN CHOOSE i \in 1..Len(u) :
                   u[i] = Asc.DOT /\ \A j \in 1..(i - 1) : u[j] # Asc.DOT
            ELSE Len(u) + 1

\* decimal.Decimal(s) of a str in plain notation: sign, digits, a point
ParseDecimal(s, line) ==
  LET u  == Unsigned(s)
      p  == DotAt(u)
      ip == SubSeq(u, 1, p - 1)
      fp == SubSeq(u, p + 1, Len(u))
      n  == DigitsValue(ip \o fp)
  IN  IF AllDigits(ip) /\ AllDigits(fp) /\ Len(ip) + Len(fp) > 0
      THEN Ok(DecV(IF Negative(s) THEN -n ELSE n, Len(fp)))
      ELSE Fail("InvalidOperation", line)

IsLeap(y) == (y % 4 = 0 /\ y % 100 # 0) \/ y % 400 = 0

DaysIn(y, m) ==
  IF m = 2 THEN (IF IsLeap(y) THEN 29 ELSE 28)
  ELSE IF m \in {4, 6, 9, 11} THEN 30 ELSE 31

\* datetime.date(y, m, d)
MakeDate(y, m, d, line) ==
  IF y >= 1 /\ y <= 9999 /\ m >= 1 /\ m <= 12 /\ d >= 1 /\ d <= DaysIn(y, m)
  THEN Ok(DateV(y, m, d))
  ELSE Fail("ValueError", line)

\* value.strftime('%Y%m%d'): a date only, and Python 2 refuses years
\* before 1900
Strftime(v, line) ==
  IF v.k # "date" THEN Fail("AttributeError", line)
  ELSE IF v.s[1] < 1900 THEN Fail("ValueError", line)
  ELSE Ok(ZeroPad(v.s[1], 4) \o ZeroPad(v.s[2], 2) \o ZeroPad(v.s[3], 2))

(***************************************************************************)
(* struct.pack / struct.unpack, little-endian.                             *)
(***************************************************************************)
PackB(n) == <<n % 256>>

PackH(n) == <<n % 256, (n \div 256) % 256>>

PackL(n) == <<n % 256, (n \div 256) % 256, (n \div 65536) % 256,
              (n \div 16777216) % 256>>

UnpackH(b) == b[1] + 256 * b[2]

UnpackL(b) == b[1] + 256 * b[2] + 65536 * b[3] + 16777216 * b[4]

\* the header of dbfwriter: struct.pack('<BBBBLHH20x', ...)
PackHeader(ver, yr, mon, day, nrec, lenhdr, lenrec) ==
  IF \/ yr < 0 \/ yr > 255
     \/ nrec < 0 \/ nrec \div 65536 >= 65536
     \/ lenhdr >= 65536 \/ lenrec >= 65536
  THEN Fail("struct.error", 93)
  ELSE Ok(PackB(ver) \o PackB(yr) \o PackB(mon) \o PackB(day) \o PackL(nrec)
          \o PackH(lenhdr) \o PackH(lenrec) \o Repeat(Asc.NUL, 20))

\* a writer that pads the name with ljust's default, the space
PackDescriptorSpacePadded(name, spec) ==
  Ok(Take(Ljust(name, 11, Asc.SP), 11) \o <<spec[1]>>
     \o Repeat(Asc.NUL, 4) \o PackB(spec[2]) \o PackB(spec[3])
     \o Repeat(Asc.NUL, 14))

\* one field descriptor: name.ljust(11, '\x00'), then
\* struct.pack('<11sc4xBB14x', name, typ, size, deci)
PackDescriptor(name, spec) ==
  IF spec[2] < 0 \/ spec[2] > 255 \/ spec[3] < 0 \/ spec[3] > 255
  THEN Fail("struct.error", 100)
  ELSE Ok(Take(Ljust(name, 11, Asc.NUL), 11) \o <<spec[1]>>
          \o Repeat(Asc.NUL, 4) \o PackB(spec[2]) \o PackB(spec[3])
          \o Repeat(Asc.NUL, 14))

(***************************************************************************)
(* dbfwriter.                                                              *)
(***************************************************************************)
RECURSIVE SumSizes(_)
SumSizes(specs) ==
  IF specs = <<>> THEN 0 ELSE Head(specs)[2] + SumSizes(Tail(specs))

\* lenrecord = sum(field[1] for field in fieldspecs) + 1
LenRecord(specs) == SumSizes(specs) + 1

\* lenheader = numfields * 32 + 33
LenHeader(specs) == Len(specs) * 32 + 33

\* the value of one field as dbfwriter renders it, before the width check
RenderValue(spec, value) ==
  CASE spec[1] = Asc.N -> Ok(Rjust(Str(value), spec[2], Asc.SP))
    [] spec[1] = Asc.D -> Strftime(value, 113)
    [] spec[1] = Asc.L ->
         IF Str(value) = <<>> THEN Fail("IndexError", 115)
         ELSE Ok(<<Upper(Str(value)[1])>>)
    [] OTHER -> Ok(Ljust(Take(Str(value), spec[2]), spec[2], Asc.SP))

\* a writer whose width check is gone
WidthAssertDropped(spec, rendered) == rendered

\* assert len(value) == size
WidthAssert(spec, rendered) ==
  IF Len(rendered.v) # spec[2] THEN Fail("AssertionError", 118) ELSE rendered

RenderField(spec, value) ==
  LET r == RenderValue(spec, value)
  IN  IF r.err # NoError THEN r ELSE WidthAssert(spec, r)

\* for (typ, size, deci), value in itertools.izip(fieldspecs, record):
\* the bytes written for the fields from the j-th on, and the exception
\* that stopped the loop
RECURSIVE WriteFields(_, _, _, _)
WriteFields(specs, rec, j, out) ==
  IF j > Min(Len(specs), Len(rec)) THEN [err |-> NoError, out |-> out]
  ELSE LET r == RenderField(specs[j], rec[j])
       IN  IF r.err # NoError THEN [err |-> r.err, out |-> out]
           ELSE WriteFields(specs, rec, j + 1, out \o r.v)

\* for name, (typ, size, deci) in itertools.izip(fieldnames, fieldspecs)
RECURSIVE WriteDescriptors(_, _, _, _)
WriteDescriptors(names, specs, j, out) ==
  IF j > Min(Len(names), Len(specs)) THEN [err |-> NoError, out |-> out]
  ELSE LET d == PackDescriptor(names[j], specs[j])
       IN  IF d.err # NoError THEN [err |-> d.err, out |-> out]
           ELSE WriteDescriptors(names, specs, j + 1, out \o d.v)

\* datetime.datetime.now(): the dates the writer may run on
Clock == {<<2008, 3, 14>>, <<2026, 11, 1>>}

\* if numrec is None: numrec = len(records)
WriterNumrec == IF numrecArg = -1 THEN Len(records) ELSE numrecArg

\* header info, field specs and terminator
WriteHeader ==
  /\ wpc = "header"
  /\ \E now \in Clock :
       LET hdr == PackHeader(3, now[1] - 1900, now[2], now[3], WriterNumrec,
                             LenHeader(fieldspecs), LenRecord(fieldspecs))
           dsc == WriteDescriptors(fieldnames, fieldspecs, 1, <<>>)
       IN  IF hdr.err # NoError
           THEN /\ werr' = hdr.err
                /\ wpc' = "failed"
                /\ f' = f
           ELSE IF dsc.err # NoError
           THEN /\ werr' = dsc.err
                /\ wpc' = "failed"
                /\ f' = f \o hdr.v \o dsc.out
           ELSE /\ werr' = werr
                /\ wpc' = "records"
                /\ f' = f \o hdr.v \o dsc.out \o <<Asc.CR>>
  /\ UNCHANGED <<fieldnames, fieldspecs, records, numrecArg, widx>>
  /\ UNCHANGED rvars

\* one pass of "for record in records": the deletion flag, then the fields
WriteRecord ==
  /\ wpc = "records"
  /\ widx < Len(records)
  /\ LET w == WriteFields(fieldspecs, records[widx + 1], 1, <<>>)
     IN  /\ f' = f \o <<Asc.SP>> \o w.out
         /\ IF w.err # NoError
            THEN /\ werr' = w.err
                 /\ wpc' = "failed"
                 /\ widx' = widx
            ELSE /\ werr' = werr
                 /\ wpc' = wpc
                 /\ widx' = widx + 1
  /\ UNCHANGED <<fieldnames, fieldspecs, records, numrecArg>>
  /\ UNCHANGED rvars

\* End of file
WriteEOF ==
  /\ wpc = "records"
  /\ widx = Len(records)
  /\ f' = f \o <<Asc.EOF>>
  /\ wpc' = "written"
  /\ UNCHANGED <<fieldnames, fieldspecs, records, numrecArg, widx, werr>>
  /\ UNCHANGED rvars

(***************************************************************************)
(* dbfreader.                                                              *)
(***************************************************************************)
\* 'DeletionFlag'
DeletionFlagName == <<68, 101, 108, 101, 116, 105, 111, 110, 70, 108, 97, 103>>

\* fields.insert(0, ('DeletionFlag', 'C', 1, 0))
DeletionFlagField == <<DeletionFlagName, Asc.C, 1, 0>>

\* numfields = (lenheader - 33) // 32
NumFields(lh) == (lh - 33) \div 32

\* struct.unpack('<11sc4xBB14x', b) and name.replace('\0', '')
UnpackDescriptor(b) == <<StripNul(SubSeq(b, 1, 11)), b[12], b[17], b[18]>>

\* struct.calcsize(fmt) for fmt = ''.join('%ds' % fieldinfo[2] ...)
RECURSIVE CalcSize(_)
CalcSize(flds) ==
  IF flds = <<>> THEN 0 ELSE Head(flds)[3] + CalcSize(Tail(flds))

\* struct.unpack(fmt, b): one string per field, of the field's size
RECURSIVE UnpackRecord(_, _)
UnpackRecord(flds, b) ==
  IF flds = <<>> THEN <<>>
  ELSE <<SubSeq(b, 1, Head(flds)[3])>>
       \o UnpackRecord(Tail(flds), SubSeq(b, Head(flds)[3] + 1, Len(b)))

\* 'YyTt' and 'NnFf'
TrueLetters == <<Asc.Y, Asc.y, Asc.T, Asc.t>>

FalseLetters == <<Asc.N, Asc.n, Asc.F, Asc.f>>

\* a reader that knows the capital letters only
CoerceLogicalCapitals(value) ==
  IF IsSubstring(value, <<Asc.Y, Asc.T>>) THEN StrV(<<Asc.T>>)
  ELSE IF IsSubstring(value, <<Asc.N, Asc.F>>) THEN StrV(<<Asc.F>>)
  ELSE StrV(<<Asc.QM>>)

\* (value in 'YyTt' and 'T') or (value in 'NnFf' and 'F') or '?'
CoerceLogical(value) ==
  IF IsSubstring(value, TrueLetters) THEN StrV(<<Asc.T>>)
  ELSE IF IsSubstring(value, FalseLetters) THEN StrV(<<Asc.F>>)
  ELSE StrV(<<Asc.QM>>)

\* the N branch
CoerceNumeric(value, deci) ==
  LET v == Lstrip(StripNul(value))
  IN  IF v = <<>> THEN Ok(IntV(0))
      ELSE IF deci # 0 THEN ParseDecimal(v, 54)
      ELSE ParseInt(v, 56)

\* the D branch
CoerceDate(value) ==
  LET y == ParseInt(Slice(value, 0, 4), 58)
      m == ParseInt(Slice(value, 4, 6), 58)
      d == ParseInt(Slice(value, 6, 8), 58)
  IN  IF y.err # NoError THEN y
      ELSE IF m.err # NoError THEN m
      ELSE IF d.err # NoError THEN d
      ELSE MakeDate(y.v.n, m.v.n, d.v.n, 59)

\* the value dbfreader makes of one field's bytes
CoerceValue(fld, value) ==
  CASE fld[2] = Asc.N -> CoerceNumeric(value, fld[4])
    [] fld[2] = Asc.D -> CoerceDate(value)
    [] fld[2] = Asc.L -> Ok(CoerceLogical(value))
    [] OTHER -> Ok(StrV(value))

\* for (name, typ, size, deci), value in itertools.izip(fields, record)
RECURSIVE DecodeRecord(_, _, _, _)
DecodeRecord(flds, record, j, result) ==
  IF j > Min(Len(flds), Len(record)) THEN Ok(result)
  ELSE IF flds[j][1] = DeletionFlagName
       THEN DecodeRecord(flds, record, j + 1, result)
  ELSE LET c == CoerceValue(flds[j], record[j])
       IN  IF c.err # NoError THEN c
           ELSE DecodeRecord(flds, record, j + 1, Append(result, c.v))

\* a reader that skips only the records flagged '*'
IsDeletedStarOnly(record) == record[1] = <<Asc.STAR>>

\* if record[0] != ' ': continue
IsDeleted(record) == record[1] # <<Asc.SP>>

\* a reader that takes any byte for the terminator
IsTerminatorAny(b) == TRUE

\* assert terminator == '\r'
IsTerminator(b) == b = <<Asc.CR>>

\* a reader that ends the sequence quietly when the stream runs out
ShortReadEndsQuietly == [pc |-> "done", err |-> NoError]

\* struct.unpack(fmt, f.read(fmtsiz)) on fewer than fmtsiz bytes
ShortRead == [pc |-> "error", err |-> Raise("struct.error", 43)]

\* the first next(): the prologue and the field descriptors, then
\* yield [field[0] for field in fields]
ReadHeader ==
  /\ wpc \in {"written", "idle"}
  /\ rpc = "start"
  /\ IF Len(f) < 32
     THEN /\ rerr' = Raise("struct.error", 25)
          /\ rpc' = "error"
          /\ pos' = Len(f)
          /\ UNCHANGED <<numrec, lenheader, fields, ynames>>
     ELSE LET nr == UnpackL(SubSeq(f, 5, 8))
              lh == UnpackH(SubSeq(f, 9, 10))
              n  == Max(NumFields(lh), 0)
          IN  /\ numrec' = nr
              /\ lenheader' = lh
              /\ IF Len(f) < 32 + 32 * n
                 THEN /\ rerr' = Raise("struct.error", 30)
                      /\ rpc' = "error"
                      /\ pos' = Len(f)
                      /\ UNCHANGED <<fields, ynames>>
                 ELSE /\ fields' = [j \in 1..n |->
                            UnpackDescriptor(SubSeq(f, 32 * j + 1, 32 * j + 32))]
                      /\ ynames' = [j \in 1..n |-> fields'[j][1]]
                      /\ pos' = 32 + 32 * n
                      /\ rpc' = "names"
                      /\ rerr' = rerr
  /\ UNCHANGED <<f, idx, yspecs, rows>>
  /\ UNCHANGED wvars

\* the second next(): yield [tuple(field[1:]) for field in fields]
YieldSpecs ==
  /\ rpc = "names"
  /\ yspecs' = [j \in 1..Len(fields) |->
                  <<fields[j][2], fields[j][3], fields[j][4]>>]
  /\ rpc' = "specs"
  /\ UNCHANGED <<f, pos, numrec, lenheader, fields, idx, ynames, rows, rerr>>
  /\ UNCHANGED wvars

\* terminator = f.read(1); assert terminator == '\r'; then the deletion
\* flag joins the fields
ReadTerminator ==
  /\ rpc = "specs"
  /\ pos' = Min(pos + 1, Len(f))
  /\ IF ~IsTerminator(Slice(f, pos, pos + 1))
     THEN /\ rerr' = Raise("AssertionError", 37)
          /\ rpc' = "error"
          /\ fields' = fields
     ELSE /\ rerr' = rerr
          /\ rpc' = "records"
          /\ fields' = <<DeletionFlagField>> \o fields
  /\ UNCHANGED <<f, numrec, lenheader, idx, ynames, yspecs, rows>>
  /\ UNCHANGED wvars

\* one pass of "for i in xrange(numrec)": a deleted record is skipped, a
\* live one is decoded and yielded
ReadRecord ==
  /\ rpc = "records"
  /\ idx < numrec
  /\ LET fmtsiz == CalcSize(fields)
         buf    == Slice(f, pos, pos + fmtsiz)
     IN  /\ pos' = pos + Len(buf)
         /\ IF Len(buf) # fmtsiz
            THEN /\ rerr' = ShortRead.err
                 /\ rpc' = ShortRead.pc
                 /\ UNCHANGED <<idx, rows>>
            ELSE LET record == UnpackRecord(fields, buf)
                     result == DecodeRecord(fields, record, 1, <<>>)
                 IN  IF IsDeleted(record)
                     THEN /\ idx' = idx + 1
                          /\ UNCHANGED <<rows, rerr, rpc>>
                     ELSE IF result.err # NoError
                     THEN /\ rerr' = result.err
                          /\ rpc' = "error"
                          /\ UNCHANGED <<idx, rows>>
                     ELSE /\ rows' = Append(rows, result.v)
                          /\ idx' = idx + 1
                          /\ UNCHANGED <<rerr, rpc>>
  /\ UNCHANGED <<f, numrec, lenheader, fields, ynames, yspecs>>
  /\ UNCHANGED wvars

\* the loop is over: the generator returns
EndOfRecords ==
  /\ rpc = "records"
  /\ idx >= numrec
  /\ rpc' = "done"
  /\ UNCHANGED <<f, pos, numrec, lenheader, fields, idx, ynames, yspecs,
                 rows, rerr>>
  /\ UNCHANGED wvars

(***************************************************************************)
(* The arguments dbfwriter is called with.  A field list is a run of       *)
(* consecutive entries of WriterCatalog; a record takes, for every field,  *)
(* the entry's value of one variant.                                       *)
(***************************************************************************)
WriterCatalog == <<
  \* ('C', 10, 0): 'Alice', 'ABCDEFGHIJKL', 42
  [spec |-> <<Asc.C, 10, 0>>,
   vals |-> <<StrV(<<65, 108, 105, 99, 101>>), StrV(<<65, 66, 67, 68, 69, 70, 71, 72, 73, 74, 75, 76>>), IntV(42)>>],
  \* ('N', 3, 0): 30, Decimal('1.5'), -123
  [spec |-> <<Asc.N, 3, 0>>,
   vals |-> <<IntV(30), DecV(15, 1), IntV(-123)>>],
  \* ('D', 8, 0): date(2023, 6, 15), date(2000, 2, 29), date(1850, 1, 1)
  [spec |-> <<Asc.D, 8, 0>>,
   vals |-> <<DateV(2023, 6, 15), DateV(2000, 2, 29), DateV(1850, 1, 1)>>],
  \* ('L', 1, 0): 'T', 'F', '?'
  [spec |-> <<Asc.L, 1, 0>>,
   vals |-> <<StrV(<<Asc.T>>), StrV(<<Asc.F>>), StrV(<<Asc.QM>>)>>],
  \* ('N', 4, 2): Decimal('1.50'), -12, Decimal('12.345')
  [spec |-> <<Asc.N, 4, 2>>,
   vals |-> <<DecV(150, 2), IntV(-12), DecV(12345, 3)>>],
  \* ('M', 1, 0): 'x', 'yz', ''
  [spec |-> <<Asc.M, 1, 0>>,
   vals |-> <<StrV(<<120>>), StrV(<<121, 122>>), StrV(<<>>)>>],
  \* ('X', 2, 0), a type code outside C, M, D, N, L: 'ab', 'c', 7
  [spec |-> <<Asc.X, 2, 0>>,
   vals |-> <<StrV(<<97, 98>>), StrV(<<99>>), IntV(7)>>],
  \* ('D', 6, 0): date(2023, 6, 15), date(1999, 12, 31), 20230615
  [spec |-> <<Asc.D, 6, 0>>,
   vals |-> <<DateV(2023, 6, 15), DateV(1999, 12, 31), IntV(20230615)>>],
  \* ('L', 2, 0): 'T', 'F', ''
  [spec |-> <<Asc.L, 2, 0>>,
   vals |-> <<StrV(<<Asc.T>>), StrV(<<Asc.F>>), StrV(<<>>)>>],
  \* ('L', 1, 0) given other spellings: 'y', 'N', 'true'
  [spec |-> <<Asc.L, 1, 0>>,
   vals |-> <<StrV(<<Asc.y>>), StrV(<<Asc.N>>),
              StrV(<<Asc.t, 114, 117, 101>>)>>] >>

\* 'Name', 'Age', 'ABCDEFGHIJ', 'B', ''
NamePool == <<<<78, 97, 109, 101>>, <<65, 103, 101>>, <<65, 66, 67, 68, 69, 70, 71, 72, 73, 74>>, <<66>>, <<>> >>

NameAt(i) == NamePool[((i - 1) % Len(NamePool)) + 1]

Variants == {1, 2, 3}

\* the n entries of catalog cat from the k-th on, wrapping around
Window(cat, k, n) == [j \in 1..n |-> cat[((k + j - 2) % Len(cat)) + 1]]

\* a record of variant v; variant 0 is variant 1 without its last value
RecordOf(w, v) ==
  IF v = 0 THEN [j \in 1..(Len(w) - 1) |-> w[j].vals[1]]
  ELSE [j \in 1..Len(w) |-> w[j].vals[v]]

ReaderInit ==
  /\ rpc = "start"
  /\ pos = 0
  /\ numrec = 0
  /\ lenheader = 0
  /\ fields = <<>>
  /\ idx = 0
  /\ ynames = <<>>
  /\ yspecs = <<>>
  /\ rows = <<>>
  /\ rerr = NoError

\* dbfwriter is called on a newly created file; dbfreader then reads the
\* file from its start
Init ==
  /\ \E k \in 1..Len(WriterCatalog), n \in 0..MaxFields, dn \in {-1, 0, 1},
        nrecs \in 0..MaxRecs :
       /\ n = 0 => k = 1
       /\ n + dn >= 0
       /\ LET w == Window(WriterCatalog, k, n)
          IN  /\ fieldspecs = [j \in 1..n |-> w[j].spec]
              /\ fieldnames = [j \in 1..(n + dn) |-> NameAt(k + j - 1)]
              /\ \E vs \in [1..nrecs -> Variants \cup {0}] :
                   records = [r \in 1..nrecs |-> RecordOf(w, vs[r])]
       /\ numrecArg \in {-1, nrecs + 1, Max(nrecs - 1, 0)}
  /\ f = <<>>
  /\ wpc = "header"
  /\ widx = 0
  /\ werr = NoError
  /\ ReaderInit

Next ==
  \/ WriteHeader
  \/ WriteRecord
  \/ WriteEOF
  \/ ReadHeader
  \/ YieldSpecs
  \/ ReadTerminator
  \/ ReadRecord
  \/ EndOfRecords

Spec == Init /\ [][Next]_vars

(***************************************************************************)
(* The streams dbfreader is given when it reads a file it did not write:   *)
(* a prologue, descriptors, a terminator and record slots, each part       *)
(* well-formed or not.  A descriptor list is a run of consecutive entries  *)
(* of ReaderCatalog; a slot takes, for every field, the entry's bytes of   *)
(* one variant.                                                            *)
(***************************************************************************)
ReaderCatalog == <<
  \* ('C', 3, 0): 'ab ', 'xyz', '\0\0\0'
  [spec |-> <<Asc.C, 3, 0>>, raws |-> <<<<97, 98, 32>>, <<120, 121, 122>>, <<0, 0, 0>> >>],
  \* ('N', 3, 0): ' 30', '\0 \0', '1.5'
  [spec |-> <<Asc.N, 3, 0>>, raws |-> <<<<32, 51, 48>>, <<0, 32, 0>>, <<49, 46, 53>>>>],
  \* ('D', 8, 0): '20230615', '20000229', '20230230'
  [spec |-> <<Asc.D, 8, 0>>, raws |-> <<<<50, 48, 50, 51, 48, 54, 49, 53>>, <<50, 48, 48, 48, 48, 50, 50, 57>>, <<50, 48, 50, 51, 48, 50, 51, 48>>>>],
  \* ('L', 1, 0): 'y', 'N', ' '
  [spec |-> <<Asc.L, 1, 0>>, raws |-> <<<<121>>, <<78>>, <<32>>>>],
  \* ('N', 4, 2): '1.50', ' -12', 'ab.c'
  [spec |-> <<Asc.N, 4, 2>>, raws |-> <<<<49, 46, 53, 48>>, <<32, 45, 49, 50>>, <<97, 98, 46, 99>>>>],
  \* ('M', 1, 0): 'm', ' ', '\0'
  [spec |-> <<Asc.M, 1, 0>>, raws |-> <<<<109>>, <<32>>, <<0>> >>],
  \* ('X', 2, 0), a type code outside C, M, D, N, L: 'ab', '  ', '\0a'
  [spec |-> <<Asc.X, 2, 0>>, raws |-> <<<<97, 98>>, <<32, 32>>, <<0, 97>> >>],
  \* ('L', 2, 0): 'Yy', 'nF', 'TN'
  [spec |-> <<Asc.L, 2, 0>>, raws |-> <<<<89, 121>>, <<110, 70>>, <<84, 78>>>>],
  \* ('L', 0, 0): nothing to hold
  [spec |-> <<Asc.L, 0, 0>>, raws |-> << <<>>, <<>>, <<>> >>] >>

\* the 32 bytes of a prologue: only bytes 4..9 are read by dbfreader
RawPrologue(nr, lh) ==
  <<3, 108, 3, 14>> \o PackL(nr) \o PackH(lh) \o Repeat(255, 22)

\* the 32 bytes of a descriptor: only bytes 0..11, 16 and 17 are read
RawDescriptor(name, spec) ==
  Ljust(name, 11, Asc.NUL) \o <<spec[1]>> \o <<1, 2, 3, 4>>
    \o <<spec[2], spec[3]>> \o Repeat(255, 14)

RECURSIVE Concat(_)
Concat(ss) == IF ss = <<>> THEN <<>> ELSE Head(ss) \o Concat(Tail(ss))

\* a slot: its first byte and the variant of its fields' bytes
SlotKinds == << <<Asc.SP, 1>>, <<Asc.SP, 2>>, <<Asc.SP, 3>>, <<Asc.STAR, 3>>,
                <<Asc.NUL, 1>> >>

RawSlot(w, kind) ==
  <<SlotKinds[kind][1]>>
    \o Concat([j \in 1..Len(w) |-> w[j].raws[SlotKinds[kind][2]]])

\* what the prologue's header length is off by, and the byte that follows
\* the descriptors
HeaderKinds == { <<0, Asc.CR>>, <<7, Asc.CR>>, <<-32, Asc.CR>>,
                 <<-39, Asc.CR>>, <<32, Asc.CR>>, <<0, Asc.LF>> }

\* how the stream ends: with the end-of-file byte, with the last slot, or
\* one byte short
Endings == {"eof", "none", "cut"}

RawStream(w, nr, hk, kinds, ending) ==
  LET body == RawPrologue(nr, 33 + 32 * Len(w) + hk[1])
              \o Concat([j \in 1..Len(w) |-> RawDescriptor(NameAt(j), w[j].spec)])
              \o <<hk[2]>>
              \o Concat([r \in 1..Len(kinds) |-> RawSlot(w, kinds[r])])
  IN  CASE ending = "eof" -> body \o <<Asc.EOF>>
        [] ending = "cut" -> SubSeq(body, 1, Len(body) - 1)
        [] OTHER -> body

\* a file of one live record with one L field of size 1 holding byte b
LogicalStream(b) ==
  RawPrologue(1, 65) \o RawDescriptor(NameAt(4), <<Asc.L, 1, 0>>)
    \o <<Asc.CR, Asc.SP, b, Asc.EOF>>

WriterIdle ==
  /\ fieldnames = <<>>
  /\ fieldspecs = <<>>
  /\ records = <<>>
  /\ numrecArg = -1
  /\ wpc = "idle"
  /\ widx = 0
  /\ werr = NoError

\* dbfreader is called on a stream positioned at its start
InitDecode ==
  /\ \/ \E k \in 1..Len(ReaderCatalog), n \in 0..MaxFields,
           ns \in 0..MaxRecs, dnr \in {-1, 0, 1}, hk \in HeaderKinds,
           ending \in Endings :
          /\ n = 0 => k = 1
          /\ ns + dnr >= 0
          /\ 33 + 32 * n + hk[1] >= 0
          /\ \E kinds \in [1..ns -> 1..Len(SlotKinds)] :
               f = RawStream(Window(ReaderCatalog, k, n), ns + dnr, hk,
                             kinds, ending)
     \/ \E b \in Byte : f = LogicalStream(b)
  /\ WriterIdle
  /\ ReaderInit

NextDecode ==
  \/ ReadHeader
  \/ YieldSpecs
  \/ ReadTerminator
  \/ ReadRecord
  \/ EndOfRecords

SpecDecode == InitDecode /\ [][NextDecode]_vars

(***************************************************************************)
(* What dbfwriter has written, recomputed from its arguments.              *)
(***************************************************************************)
\* the fields of record r that izip pairs with a field spec
ZipLen(r) == Min(Len(fieldspecs), Len(records[r]))

\* the prologue, the descriptors izip pairs with a name, the terminator
HeaderBytesWritten == 32 + 32 * Min(Len(fieldnames), Len(fieldspecs)) + 1

CellRender(r, j) == RenderValue(fieldspecs[j], records[r][j])

WidthMismatch(r, j) ==
  CellRender(r, j).err = NoError /\ Len(CellRender(r, j).v) # fieldspecs[j][2]

CellsBefore(r, j) == Concat([i \in 1..(j - 1) |-> CellRender(r, i).v])

RecordBytes(r) == <<Asc.SP>> \o CellsBefore(r, ZipLen(r) + 1)

RecordsBefore(r) == Concat([i \in 1..(r - 1) |-> RecordBytes(i)])

RecordRegion == SubSeq(f, HeaderBytesWritten + 1, Len(f))

FieldWidthMismatch == Raise("AssertionError", 118)

SupportedTypes == {Asc.C, Asc.M, Asc.D, Asc.N, Asc.L}

\* C10: the bytes dbfwriter writes before the first record (prologue,
\* descriptors, terminator) number exactly the header length stored in the
\* prologue, and the last of them is the 0x0D terminator, whatever the
\* lengths of fieldnames and fieldspecs.
C10_HeaderLengthMatchesBytes ==
  (wpc = "records" /\ widx = 0) =>
     /\ Len(f) = UnpackH(SubSeq(f, 9, 10))
     /\ f[Len(f)] = Asc.CR
     /\ (Len(f) - 33) \div 32 = NumFields(UnpackH(SubSeq(f, 9, 10)))

\* C4: every record dbfwriter writes without failing takes exactly
\* 1 + (sum of the field sizes) bytes, the record length stored in the
\* prologue.
C4_RecordLengthMatchesBytes ==
  (wpc \in {"records", "written"} /\ Len(fieldnames) = Len(fieldspecs)) =>
     /\ UnpackH(SubSeq(f, 11, 12)) = 1 + SumSizes(fieldspecs)
     /\ Len(f) = HeaderBytesWritten + widx * UnpackH(SubSeq(f, 11, 12))
                 + (IF wpc = "written" THEN 1 ELSE 0)

\* C6: a rendered value whose length differs from the field's size makes
\* dbfwriter fail with the width assertion at that field: no record that
\* holds such a field is completed, and when the assertion fires the stream
\* ends with the records before, the deletion flag and the fields before;
\* neither that field, nor anything later, nor the end-of-file byte follows.
C6_WidthMismatchStopsWriter ==
  /\ \A r \in 1..widx : \A j \in 1..ZipLen(r) : ~WidthMismatch(r, j)
  /\ wpc = "written" => widx = Len(records)
  /\ (wpc = "failed" /\ werr.line >= 113) =>
        \A j \in 1..ZipLen(widx + 1) :
           ( /\ WidthMismatch(widx + 1, j)
             /\ \A i \in 1..(j - 1) : /\ CellRender(widx + 1, i).err = NoError
                                     /\ ~WidthMismatch(widx + 1, i) )
           => /\ werr = FieldWidthMismatch
              /\ RecordRegion = RecordsBefore(widx + 1) \o <<Asc.SP>>
                                  \o CellsBefore(widx + 1, j)
  /\ werr = FieldWidthMismatch =>
        /\ wpc = "failed"
        /\ \E j \in 1..ZipLen(widx + 1) : WidthMismatch(widx + 1, j)

\* a record was written, then the second field of the next record did not
\* fit and the writer stopped
C6_Witness ==
  /\ wpc = "failed"
  /\ werr = FieldWidthMismatch
  /\ widx = 1
  /\ ZipLen(2) = 2
  /\ ~WidthMismatch(2, 1)
  /\ WidthMismatch(2, 2)

\* C8: a field whose type code is not C, M, D, N or L gets no bytes written
\* by dbfwriter and no value yielded by dbfreader.
C8_UnsupportedTypeRejected ==
  /\ Len(fieldnames) = Len(fieldspecs) =>
        \A r \in 1..widx : \A j \in 1..ZipLen(r) :
           fieldspecs[j][1] \in SupportedTypes
  /\ rows # <<>> => \A j \in 1..Len(yspecs) : yspecs[j][1] \in SupportedTypes

(***************************************************************************)
(* The round trip: dbfreader over the bytes dbfwriter produced.            *)
(***************************************************************************)
NameFits(name) ==
  Len(name) <= 10 /\ \A i \in 1..Len(name) : name[i] # Asc.NUL

\* dbfwriter produced the file: a name and a spec per field, a value per
\* field in every record, every value fitting its field, and the declared
\* record count the number of records
RoundTripInputs ==
  /\ wpc = "written"
  /\ Len(fieldnames) = Len(fieldspecs)
  /\ \A j \in 1..Len(fieldnames) : NameFits(fieldnames[j])
  /\ \A j \in 1..Len(fieldspecs) : fieldspecs[j][1] \in SupportedTypes
  /\ \A r \in 1..Len(records) : Len(records[r]) = Len(fieldspecs)
  /\ WriterNumrec = Len(records)

\* the value read back for a value written: equal for N, D and L, the text
\* truncated and space-padded to the size for C and M
ReadBackAs(spec, orig, got) ==
  IF spec[1] \in {Asc.N, Asc.D, Asc.L} THEN PyEq(got, orig)
  ELSE got = StrV(Ljust(Take(Str(orig), spec[2]), spec[2], Asc.SP))

RoundTripHolds ==
  /\ rpc # "error"
  /\ rpc \in {"names", "specs", "records", "done"} => ynames = fieldnames
  /\ rpc \in {"specs", "records", "done"} => yspecs = fieldspecs
  /\ Len(rows) <= Len(records)
  /\ \A r \in 1..Len(rows) :
        /\ Len(rows[r]) = Len(fieldspecs)
        /\ \A j \in 1..Len(fieldspecs) :
              ReadBackAs(fieldspecs[j], records[r][j], rows[r][j])
  /\ rpc = "done" => Len(rows) = Len(records)

\* every N value written to a field of deci = 0 is an int
IntegerFieldsHoldIntegers ==
  \A r \in 1..Len(records) : \A j \in 1..Len(fieldspecs) :
     (fieldspecs[j][1] = Asc.N /\ fieldspecs[j][3] = 0) =>
        records[r][j].k = "int"

\* every L value is one of the logical values 'T', 'F', '?'
LogicalFieldsHoldLogicals ==
  \A r \in 1..Len(records) : \A j \in 1..Len(fieldspecs) :
     fieldspecs[j][1] = Asc.L =>
        records[r][j] \in {StrV(<<Asc.T>>), StrV(<<Asc.F>>), StrV(<<Asc.QM>>)}

HeaderRead ==
  \/ rpc \in {"names", "specs", "records", "done"}
  \/ rpc = "error" /\ rerr.line > 30

\* the terminator was read and accepted
InRecords ==
  \/ rpc \in {"records", "done"}
  \/ rpc = "error" /\ rerr.line >= 43

\* the offset of the byte that follows the last descriptor read
TerminatorAt == 32 + 32 * Len(ynames)

DataStart == TerminatorAt + 1

RecLen == 1 + SumSizes(yspecs)

SlotComplete(k) == DataStart + k * RecLen <= Len(f)

SlotAt(k) == SubSeq(f, DataStart + (k - 1) * RecLen + 1, DataStart + k * RecLen)

SlotLive(k) == SlotAt(k)[1] = Asc.SP

FieldOffset(j) == 1 + SumSizes(SubSeq(yspecs, 1, j - 1))

FieldBytes(k, j) ==
  SubSeq(SlotAt(k), FieldOffset(j) + 1, FieldOffset(j) + yspecs[j][2])

FieldValue(k, j) == CoerceValue(<<ynames[j]>> \o yspecs[j], FieldBytes(k, j))

\* the live slots among the first i, in stream order
LiveSlots(i) == SelectSeq([k \in 1..i |-> k], SlotLive)

MalformedHeader == Raise("AssertionError", 37)

TruncatedRecord == Raise("struct.error", 43)

\* C2: the data rows yielded are exactly the slots whose first byte is
\* 0x20, in stream order, each decoded from its own bytes; a slot with any
\* other first byte yields nothing, raises nothing and takes its
\* record-length bytes; the rows never outnumber the declared record count.
C2_DeletedSlotsSkipped ==
  InRecords =>
     /\ idx <= numrec
     /\ Len(rows) <= numrec
     /\ \A k \in 1..idx : SlotComplete(k)
     /\ rpc # "error" => pos = DataStart + idx * RecLen
     /\ rpc = "done" => idx = numrec
     /\ Len(rows) = Len(LiveSlots(idx))
     /\ \A m \in 1..Len(rows) : \A j \in 1..Len(yspecs) :
           /\ FieldValue(LiveSlots(idx)[m], j).err = NoError
           /\ rows[m][j] = FieldValue(LiveSlots(idx)[m], j).v
     /\ (rpc = "error" /\ SlotComplete(idx + 1)) => SlotLive(idx + 1)

\* a deleted slot whose bytes would not decode, then a live slot: one row,
\* the second slot's
C2_Witness ==
  /\ rpc = "done"
  /\ idx = 2
  /\ ~SlotLive(1)
  /\ SlotLive(2)
  /\ Len(rows) = 1
  /\ \E j \in 1..Len(yspecs) : FieldValue(1, j).err # NoError

\* C3: the number of descriptors read is (headerLength - 33) / 32 when that
\* is a non-negative integer; a prologue whose headerLength is below 33 or
\* off a multiple of 32 makes decoding fail before any field names, specs
\* or records are yielded.
C3_MalformedHeaderLengthRejected ==
  (rpc # "start" /\ Len(f) >= 32) =>
     LET lh == UnpackH(SubSeq(f, 9, 10))
     IN  IF lh >= 33 /\ (lh - 33) % 32 = 0
         THEN HeaderRead => Len(ynames) = (lh - 33) \div 32
         ELSE /\ rpc = "error"
              /\ ynames = <<>>
              /\ yspecs = <<>>
              /\ rows = <<>>

LogicalTrue == {Asc.Y, Asc.y, Asc.T, Asc.t}

LogicalFalse == {Asc.N, Asc.n, Asc.F, Asc.f}

\* C5: the byte b of an L field of a live record is read as 'T' when b is
\* one of Y, y, T, t, as 'F' when b is one of N, n, F, f, and as '?'
\* otherwise; an L field raises nothing.
C5_LogicalCoercion ==
  InRecords =>
     /\ \A m \in 1..Len(rows) : \A j \in 1..Len(yspecs) :
           (yspecs[j][1] = Asc.L /\ yspecs[j][2] = 1) =>
              LET b == FieldBytes(LiveSlots(idx)[m], j)[1]
              IN  rows[m][j] = StrV(<<IF b \in LogicalTrue THEN Asc.T
                                      ELSE IF b \in LogicalFalse THEN Asc.F
                                      ELSE Asc.QM>>)
     /\ (rpc = "error" /\ SlotComplete(idx + 1)) =>
           \E j \in 1..Len(yspecs) :
              /\ yspecs[j][1] # Asc.L
              /\ FieldValue(idx + 1, j).err = rerr

\* the file whose one L field holds 't', read to its end
C5_Witness ==
  /\ rpc = "done"
  /\ f = LogicalStream(Asc.t)
  /\ rows = << <<StrV(<<Asc.T>>)>> >>

\* C7: when the byte after the last descriptor is not 0x0D, or is missing,
\* dbfreader fails there and never yields a data record.
C7_BadTerminatorRejected ==
  (HeaderRead /\ Slice(f, TerminatorAt, TerminatorAt + 1) # <<Asc.CR>>) =>
     /\ rows = <<>>
     /\ rpc \in {"names", "specs", "error"}
     /\ rpc = "error" => rerr = MalformedHeader

\* a stream that declares a record and holds bytes after a terminator that
\* is not 0x0D
C7_Witness ==
  /\ rpc = "error"
  /\ rerr = MalformedHeader
  /\ numrec >= 1
  /\ Len(ynames) >= 1
  /\ Len(f) > TerminatorAt + 1
  /\ f[TerminatorAt + 1] = Asc.LF

\* C9: when fewer than record-length bytes remain as dbfreader is about to
\* read a declared slot, it fails there with the short-read error: the rows
\* of the earlier live slots stay yielded, none is added, and the sequence
\* does not end normally.
C9_TruncatedRecordRaises ==
  [][ (rpc = "records" /\ idx < numrec /\ Len(f) - pos < RecLen) =>
        /\ rpc' = "error"
        /\ rerr' = TruncatedRecord
        /\ rows' = rows
        /\ Len(rows) = Len(LiveSlots(idx)) ]_vars

\* a live slot was yielded, then the stream ended inside the next slot
C9_Witness ==
  /\ rpc = "error"
  /\ rerr = TruncatedRecord
  /\ Len(rows) >= 1
  /\ Len(f) > DataStart + idx * RecLen

====
